---- MODULE Spec2Model ----
(***************************************************************************)
(* Model of the SentimentDisaster crawl adapters (CnnSpider,               *)
(* MongabaySpider) and of the location refinement loop of                  *)
(* preciselocation.py.                                                     *)
(*                                                                         *)
(* Text that the code manipulates character by character (the keyword      *)
(* attribute, geocode queries) is a sequence of one-character strings.     *)
(* Text the code only tests for emptiness or strips (titles, bodies) is a  *)
(* TLA+ string.                                                            *)
(***************************************************************************)
EXTENDS Bags, FiniteSets, Integers, Sequences, TLC

VARIABLES
    spider,      \* which adapter runs: "CNN" or "Mongabay"
    keyword,     \* the spider's keyword attribute (NoKeyword when absent)
    site,        \* what the remote source answers
    started,     \* start_requests has been consumed
    frontier,    \* requests accepted by the scheduler, not yet dispatched
    seen,        \* scheduler's set of (url, context) fingerprints
    items,       \* bag of the emitted items
    log,         \* history: bag of [req, out], one entry per dispatch
    \* ---- preciselocation.py ----
    geocode_cache,   \* query -> (lat, lon, display_name)
    tried_queries,   \* queries the loop has sent through geocode_cached
    updated, skipped, errors,   \* the three tallies
    pc,              \* "idle", "try", "finish" or "aborted"
    processed,       \* number of features the loop has left behind
    candidates, kabupaten, query_attempts,   \* locals of the loop body
    qi,              \* index in query_attempts of the next query
    found,           \* (found_lat, found_lon, found_display)
    used_query, used_source,
    result,          \* what the last finished feature was given
    attempts,        \* history: queries tried for the current feature
    calls,           \* history: bag of the queries sent to the geocoder
    feature,         \* geometry, latitude and longitude of the record the loop
                     \* has just left
    original,        \* history: what that record held in the input file
    \* ---- location_extractor.py ----
    locations,       \* pattern matches, then entity texts, of one text
    extracted        \* what extract_locations returned for them

crawlVars == <<spider, keyword, site, started, frontier, seen, items, log>>

refineVars == <<geocode_cache, tried_queries, updated, skipped, errors, pc, processed,
                candidates, kabupaten, query_attempts, qi, found,
                used_query, used_source, result, attempts, calls,
                feature, original>>

extractVars == <<locations, extracted>>

vars == <<crawlVars, refineVars, extractVars>>

(***************************************************************************)
(* Bounds                                                                  *)
(***************************************************************************)
MaxPages == 2
MaxKwLen == 3
MaxFeatures == 2
MaxMatches == 3

(***************************************************************************)
(* Text helpers                                                            *)
(***************************************************************************)
\* The spider's keyword attribute: absent, or a text.
NoKeyword == [present |-> FALSE, text |-> <<>>]

KeywordAttr(t) == [present |-> TRUE, text |-> t]

\* Python truth value of getattr(self, "keyword", None).
Truthy(attr) == attr.present /\ attr.text # <<>>

Chars == {"a", "b", " ", ","}

RECURSIVE SeqsUpTo(_, _)
SeqsUpTo(S, n) ==
    IF n = 0 THEN {<<>>}
    ELSE LET shorter == SeqsUpTo(S, n - 1)
         IN  shorter \cup {Append(s, c) : s \in {t \in shorter : Len(t) = n - 1}, c \in S}

\* str.split(sep): the segments between separators, empty segments kept.
RECURSIVE Split(_, _)
Split(s, sep) ==
    IF \A i \in 1..Len(s) : s[i] # sep THEN <<s>>
    ELSE LET i == CHOOSE j \in 1..Len(s) : s[j] = sep /\ \A m \in 1..(j - 1) : s[m] # sep
         IN  <<SubSeq(s, 1, i - 1)>> \o Split(SubSeq(s, i + 1, Len(s)), sep)

\* str.strip(): leading and trailing blanks removed.
RECURSIVE LStrip(_)
LStrip(s) == IF s # <<>> /\ Head(s) = " " THEN LStrip(Tail(s)) ELSE s

RECURSIVE RStrip(_)
RStrip(s) == IF s # <<>> /\ s[Len(s)] = " " THEN RStrip(SubSeq(s, 1, Len(s) - 1)) ELSE s

Strip(s) == RStrip(LStrip(s))

\* urllib.parse.quote_plus on the model's alphabet: a blank becomes "+",
\* a comma is percent-encoded, letters stay.
quote_plus(s) ==
    [i \in 1..Len(s) |-> IF s[i] = " " THEN "+" ELSE IF s[i] = "," THEN "%2C" ELSE s[i]]

\* strip() of a text the model keeps whole: "" and all-blank text become "".
StripText(t) == IF t = " " THEN "" ELSE t

(***************************************************************************)
(* Requests                                                                *)
(***************************************************************************)
NoStart == -1

SearchUrl(q, start) == [kind |-> "cnn-search", q |-> q, n |-> start]
GraphqlUrl(q)       == [kind |-> "graphql", q |-> q, n |-> 0]
PageUrl(q, p)       == [kind |-> "page", q |-> q, n |-> p]
ArticleUrl(a)       == [kind |-> "article", q |-> <<>>, n |-> a]

\* meta: the context a request carries.  start = NoStart: no "start" key.
\* extra: "none", "playwright" (rendered page), "overrides" (GraphQL node data).
Meta(kw, source, start, extra) ==
    [keyword |-> kw, source |-> source, start |-> start, extra |-> extra]

\* hops counts the redirects followed since the article request was first
\* issued; it is bookkeeping of the model, not part of the request.
Request(url, cb, meta, hops) == [url |-> url, cb |-> cb, meta |-> meta, hops |-> hops]

Yield(reqs, its, exc) == [requests |-> reqs, items |-> its, raised |-> exc]

Nothing == Yield(<<>>, <<>>, FALSE)

(***************************************************************************)
(* The remote source.  A site is [k, red, kind, bad]:                      *)
(*   k    number of non-empty result pages of every query                  *)
(*   red  which article URLs answer with a redirect                        *)
(*   kind what the article pages contain                                   *)
(*   bad  what the JSON endpoint answers for BadQuery on page BadPage      *)
(***************************************************************************)
Redirects == {"none", "once", "chain", "loop"}

PageKinds == {"full", "emptybox", "blankbox", "notitle", "nobox", "blank"}

JsonKinds == {"object", "unparseable", "nonobject"}

Site(k, red, kind, bad) == [k |-> k, red |-> red, kind |-> kind, bad |-> bad]

\* Every redirect pattern over complete pages, every page content behind
\* no or one redirect, every JSON answer.
Sites ==
    {Site(k, red, "full", "object") : k \in 0..MaxPages, red \in Redirects} \cup
    {Site(k, red, kind, "object") : k \in 0..MaxPages, red \in {"none", "once"},
                                    kind \in PageKinds} \cup
    {Site(k, "none", "full", bad) : k \in 0..MaxPages, bad \in JsonKinds}

BadQuery == <<"a">>

BadPage(s) == IF s.k = 0 THEN 1 ELSE s.k

\* Entries of result page p (1-based); 0 is an entry that carries no URL.
Listing(s, p) ==
    IF p > s.k THEN <<>>
    ELSE IF p = 1 THEN <<1, 0>>
    ELSE IF p = 2 THEN <<3, 1>>
    ELSE <<2>>

\* Redirect target of article a, 0 when the page is served directly.
Location(s, a) ==
    CASE s.red = "once"  -> IF a = 1 THEN 3 ELSE 0
      [] s.red = "chain" -> IF a = 1 THEN 2 ELSE IF a = 2 THEN 3 ELSE 0
      [] s.red = "loop"  -> IF a = 1 THEN 3 ELSE IF a = 3 THEN 1 ELSE 0
      [] OTHER           -> 0

\* box: the body container (div.detail-text / #main) is present;
\* h1: text of the headline, "" when there is none; text: the container's text.
ArticleBody(s) ==
    CASE s.kind = "full"     -> [box |-> TRUE,  h1 |-> "Banjir", text |-> "Isi"]
      [] s.kind = "emptybox" -> [box |-> TRUE,  h1 |-> "",       text |-> ""]
      [] s.kind = "blankbox" -> [box |-> TRUE,  h1 |-> " ",      text |-> " "]
      [] s.kind = "notitle"  -> [box |-> TRUE,  h1 |-> "",       text |-> "Isi"]
      [] s.kind = "nobox"    -> [box |-> FALSE, h1 |-> "Banjir", text |-> ""]
      [] OTHER               -> [box |-> FALSE, h1 |-> "",       text |-> ""]

JsonKind(s, q, p) == IF q = BadQuery /\ p = BadPage(s) THEN s.bad ELSE "object"

\* Anchors of a rendered page that shows no article element:
\* [href, onsite, dated].
Anchors == << [href |-> 3, onsite |-> TRUE,  dated |-> TRUE],
              [href |-> 2, onsite |-> FALSE, dated |-> TRUE],
              [href |-> 1, onsite |-> TRUE,  dated |-> FALSE],
              [href |-> 3, onsite |-> TRUE,  dated |-> TRUE] >>

\* Page-number links of rendered page p: every other result page; 0 is an
\* anchor without href.
RECURSIVE PageLinks(_, _, _)
PageLinks(s, p, n) ==
    IF n > s.k THEN <<0>>
    ELSE (IF n = p THEN <<>> ELSE <<n>>) \o PageLinks(s, p, n + 1)

\* The response to request r.
Fetch(s, r) ==
    LET u == r.url
        base == [url |-> u, meta |-> r.meta, hops |-> r.hops]
    IN  CASE u.kind = "cnn-search" ->
               base @@
               [json |-> JsonKind(s, u.q, (u.n \div 10) + 1),
                data |-> Listing(s, (u.n \div 10) + 1)]
          [] u.kind = "graphql" ->
               base @@ [json |-> JsonKind(s, u.q, BadPage(s)), data |-> Listing(s, 1)]
          [] u.kind = "page" ->
               base @@ [articles |-> Listing(s, u.n),
                        pagings  |-> PageLinks(s, u.n, 1),
                        anchors  |-> Anchors]
          [] OTHER ->
               base @@ [location |-> Location(s, u.n), page |-> ArticleBody(s)]

(***************************************************************************)
(* CnnSpider                                                               *)
(***************************************************************************)
CnnSource == "cnnindonesia.com"

NonBlank(ks) == SelectSeq(ks, LAMBDA k : Strip(k) # <<>>)

\* start_requests without the blank-entry test.
CnnStartRequestsNoSkip(attr) ==
    LET keywords == IF Truthy(attr) THEN Split(attr.text, ",") ELSE <<>>
    IN  [i \in 1..Len(keywords) |->
            Request(SearchUrl(quote_plus(Strip(keywords[i])), 0), "parse_search",
                    Meta(Strip(keywords[i]), CnnSource, NoStart, "none"), 0)]

CnnStartRequests(attr) ==
    LET keywords == IF Truthy(attr) THEN Split(attr.text, ",") ELSE <<>>
        kept     == NonBlank(keywords)
    IN  IF keywords = <<>> THEN <<>>
        ELSE [i \in 1..Len(kept) |->
                Request(SearchUrl(quote_plus(Strip(kept[i])), 0), "parse_search",
                        Meta(Strip(kept[i]), CnnSource, NoStart, "none"), 0)]

WithUrl(entries) == SelectSeq(entries, LAMBDA e : e # 0)

\* parse_search without the empty-page return.
CnnParseSearchNoStop(resp) ==
    LET start == IF resp.meta.start = NoStart THEN 0 ELSE resp.meta.start
        meta2 == [resp.meta EXCEPT !.start = start + 10]
        next  == Request(SearchUrl(quote_plus(resp.meta.keyword), start + 10),
                         "parse_search", meta2, 0)
        arts  == WithUrl(resp.data)
    IN  IF resp.json = "unparseable" THEN Nothing
        ELSE IF resp.json = "nonobject" THEN Yield(<<>>, <<>>, TRUE)
        ELSE Yield(<<next>> \o [i \in 1..Len(arts) |->
                                  Request(ArticleUrl(arts[i]), "parse", meta2, 0)],
                   <<>>, FALSE)

\* parse_search that asks for the next two pages at once.
CnnParseSearchPrefetch(resp) ==
    LET start == IF resp.meta.start = NoStart THEN 0 ELSE resp.meta.start
        meta2 == [resp.meta EXCEPT !.start = start + 10]
        meta3 == [resp.meta EXCEPT !.start = start + 20]
        next  == Request(SearchUrl(quote_plus(resp.meta.keyword), start + 10),
                         "parse_search", meta2, 0)
        after == Request(SearchUrl(quote_plus(resp.meta.keyword), start + 20),
                         "parse_search", meta3, 0)
        arts  == WithUrl(resp.data)
    IN  IF resp.json = "unparseable" THEN Nothing
        ELSE IF resp.json = "nonobject" THEN Yield(<<>>, <<>>, TRUE)
        ELSE IF resp.data = <<>> THEN Nothing
        ELSE Yield(<<next, after>> \o [i \in 1..Len(arts) |->
                                  Request(ArticleUrl(arts[i]), "parse", meta2, 0)],
                   <<>>, FALSE)

CnnParseSearch(resp) ==
    LET start == IF resp.meta.start = NoStart THEN 0 ELSE resp.meta.start
        meta2 == [resp.meta EXCEPT !.start = start + 10]
        next  == Request(SearchUrl(quote_plus(resp.meta.keyword), start + 10),
                         "parse_search", meta2, 0)
        arts  == WithUrl(resp.data)
    IN  IF resp.json = "unparseable" THEN Nothing
        ELSE IF resp.json = "nonobject" THEN Yield(<<>>, <<>>, TRUE)
        ELSE IF resp.data = <<>> THEN Nothing
        ELSE Yield(<<next>> \o [i \in 1..Len(arts) |->
                                  Request(ArticleUrl(arts[i]), "parse", meta2, 0)],
                   <<>>, FALSE)

\* item["content"]: the formatted block, stripped.
CnnContent(title, content) ==
    IF content = "" THEN "judul: " \o title \o " author: tanggal:"
    ELSE "judul: " \o title \o " author: tanggal: " \o content

Item(title, content, meta, url) ==
    [title |-> title, content |-> content, keyword |-> meta.keyword,
     source |-> meta.source, link |-> url]

\* parse without the return that follows the redirect request.
CnnParseFallThrough(resp) ==
    LET follow == IF resp.location # 0
                  THEN <<Request(ArticleUrl(resp.location), "parse", resp.meta, resp.hops + 1)>>
                  ELSE <<>>
    IN  IF resp.page.box
        THEN Yield(follow,
                   <<Item(resp.page.h1, CnnContent(resp.page.h1, StripText(resp.page.text)),
                          resp.meta, resp.url)>>,
                   FALSE)
        ELSE Yield(follow, <<>>, FALSE)

\* parse that follows a redirect with a request of its own, without the
\* context of the response.
CnnParseRedirectFreshMeta(resp) ==
    IF resp.location # 0
    THEN Yield(<<Request(ArticleUrl(resp.location), "parse",
                         Meta(<<>>, CnnSource, NoStart, "none"), resp.hops + 1)>>,
               <<>>, FALSE)
    ELSE IF resp.page.box
         THEN Yield(<<>>,
                    <<Item(resp.page.h1, CnnContent(resp.page.h1, StripText(resp.page.text)),
                           resp.meta, resp.url)>>,
                    FALSE)
         ELSE Nothing

CnnParse(resp) ==
    IF resp.location # 0
    THEN Yield(<<Request(ArticleUrl(resp.location), "parse", resp.meta, resp.hops + 1)>>,
               <<>>, FALSE)
    ELSE IF resp.page.box
         THEN Yield(<<>>,
                    <<Item(resp.page.h1, CnnContent(resp.page.h1, StripText(resp.page.text)),
                           resp.meta, resp.url)>>,
                    FALSE)
         ELSE Nothing

(***************************************************************************)
(* MongabaySpider                                                          *)
(***************************************************************************)
MongabaySource == "mongabay.co.id"

MongabayStartRequests(attr) ==
    LET keywords == IF Truthy(attr) THEN NonBlank(Split(attr.text, ",")) ELSE <<>>
        pair(k)  == << Request(GraphqlUrl(quote_plus(k)), "parse_graphql",
                               Meta(k, MongabaySource, NoStart, "none"), 0),
                       Request(PageUrl(quote_plus(k), 1), "parse_search",
                               Meta(k, MongabaySource, NoStart, "playwright"), 0) >>
        RECURSIVE all(_)
        all(i) == IF i > Len(keywords) THEN <<>>
                  ELSE pair(Strip(keywords[i])) \o all(i + 1)
    IN  all(1)

\* parse_search that stamps each follow-up with a new context.
MongabayParseSearchFreshMeta(resp) ==
    LET arts  == WithUrl(resp.articles)
        pages == WithUrl(resp.pagings)
        meta2 == [resp.meta EXCEPT !.start = IF @ = NoStart THEN 1 ELSE @ + 1]
    IN  Yield([i \in 1..Len(arts) |-> Request(ArticleUrl(arts[i]), "parse", meta2, 0)]
              \o [i \in 1..Len(pages) |->
                    Request(PageUrl(resp.url.q, pages[i]), "parse_search", meta2, 0)],
              <<>>, FALSE)

MongabayParseSearch(resp) ==
    LET arts  == WithUrl(resp.articles)
        pages == WithUrl(resp.pagings)
        \* hrefs already seen are skipped before the site test
        fresh == SelectSeq([i \in 1..Len(resp.anchors) |->
                              [a |-> resp.anchors[i],
                               first |-> \A j \in 1..(i - 1) :
                                            resp.anchors[j].href # resp.anchors[i].href]],
                           LAMBDA e : e.first /\ e.a.onsite /\ e.a.dated)
    IN  Yield([i \in 1..Len(arts) |-> Request(ArticleUrl(arts[i]), "parse", resp.meta, 0)]
              \o [i \in 1..Len(pages) |->
                    Request(PageUrl(resp.url.q, pages[i]), "parse_search", resp.meta, 0)]
              \o (IF resp.articles = <<>>
                  THEN [i \in 1..Len(fresh) |->
                          Request(ArticleUrl(fresh[i].a.href), "parse", resp.meta, 0)]
                  ELSE <<>>),
              <<>>, FALSE)

\* parse_graphql without the try/except around json.loads.
MongabayParseGraphqlNoTry(resp) ==
    LET links == WithUrl(resp.data)
    IN  IF resp.json # "object" THEN Yield(<<>>, <<>>, TRUE)
        ELSE Yield([i \in 1..Len(links) |->
                      Request(ArticleUrl(links[i]), "parse",
                              Meta(resp.meta.keyword, resp.meta.source, NoStart, "overrides"),
                              0)],
                   <<>>, FALSE)

MongabayParseGraphql(resp) ==
    LET links == WithUrl(resp.data)
    IN  IF resp.json = "unparseable" THEN Nothing
        ELSE IF resp.json = "nonobject" THEN Yield(<<>>, <<>>, TRUE)
        ELSE Yield([i \in 1..Len(links) |->
                      Request(ArticleUrl(links[i]), "parse",
                              Meta(resp.meta.keyword, resp.meta.source, NoStart, "overrides"),
                              0)],
                   <<>>, FALSE)

MongabayParse(resp) ==
    LET title   == StripText(resp.page.h1)
        content == IF resp.page.box THEN StripText(resp.page.text) ELSE ""
    IN  IF title = "" /\ content = "" THEN Nothing
        ELSE Yield(<<>>, <<Item(title, content, resp.meta, resp.url)>>, FALSE)

(***************************************************************************)
(* preciselocation.py: texts                                               *)
(***************************************************************************)
\* An optional text: None, or a string.
NoText == [present |-> FALSE, text |-> <<>>]

SomeText(t) == [present |-> TRUE, text |-> t]

\* Optional numbers: None is the empty tuple.
None == <<>>

Some(x) == <<x>>

\* Place names, two characters each.
Ubud      == <<"U", "b">>
Bali      == <<"B", "a">>
Gianyar   == <<"G", "i">>
Indonesia == <<"I", "n">>

CommaSpace == <<",", " ">>

\* "Bali, Indonesia"
BaliIndonesia == Bali \o CommaSpace \o Indonesia

\* str.lower()
LowerChar(c) ==
    CASE c = "U" -> "u" [] c = "B" -> "b"
      [] c = "G" -> "g" [] c = "I" -> "i" [] OTHER -> c

Lower(t) == [i \in 1..Len(t) |-> LowerChar(t[i])]

\* str.replace(c, "")
RECURSIVE Remove(_, _)
Remove(t, c) ==
    IF t = <<>> THEN <<>>
    ELSE (IF Head(t) = c THEN <<>> ELSE <<Head(t)>>) \o Remove(Tail(t), c)

\* str.split(): the words between runs of blanks.
SplitWords(t) == SelectSeq(Split(t, " "), LAMBDA w : w # <<>>)

\* c in q
Contains(q, c) == \E i \in 0..(Len(q) - Len(c)) : SubSeq(q, i + 1, i + Len(c)) = c

(***************************************************************************)
(* geocode_cached                                                          *)
(***************************************************************************)
Miss == [lat |-> None, lon |-> None, display |-> None]

\* What the rate-limited geocoder does with a query: returns a location,
\* returns nothing, or raises.
Locations == { [lat |-> -8, lon |-> 115, address |-> Ubud],
               [lat |-> 0,  lon |-> 0,   address |-> <<>>] }

Outcomes == {[kind |-> "location", loc |-> l] : l \in Locations} \cup
            {[kind |-> k, loc |-> [lat |-> 0, lon |-> 0, address |-> <<>>]] :
                k \in {"none", "error"}}

Geocoded(res, cache, called) == [res |-> res, cache |-> cache, called |-> called]

\* geocode_cached that forgets to store a miss.
GeocodeCachedNoMissEntry(cache, query, outcome) ==
    LET q == Strip(query)
        res == [lat |-> Some(outcome.loc.lat), lon |-> Some(outcome.loc.lon),
                display |-> Some(outcome.loc.address)]
    IN  IF q = <<>> THEN Geocoded(Miss, cache, FALSE)
        ELSE IF q \in DOMAIN cache THEN Geocoded(cache[q], cache, FALSE)
        ELSE IF outcome.kind = "location" THEN Geocoded(res, (q :> res) @@ cache, TRUE)
        ELSE Geocoded(Miss, cache, TRUE)

\* geocode_cached over a cache that holds two entries at most: storing a
\* third one evicts an older one.
GeocodeCachedEvicting(cache, query, outcome) ==
    LET q == Strip(query)
        res == [lat |-> Some(outcome.loc.lat), lon |-> Some(outcome.loc.lon),
                display |-> Some(outcome.loc.address)]
        kept == IF Cardinality(DOMAIN cache) < 2 THEN cache
                ELSE LET old == CHOOSE k \in DOMAIN cache : TRUE
                     IN  [k \in DOMAIN cache \ {old} |-> cache[k]]
    IN  IF q = <<>> THEN Geocoded(Miss, cache, FALSE)
        ELSE IF q \in DOMAIN cache THEN Geocoded(cache[q], cache, FALSE)
        ELSE IF outcome.kind = "location" THEN Geocoded(res, (q :> res) @@ kept, TRUE)
        ELSE Geocoded(Miss, (q :> Miss) @@ kept, TRUE)

\* geocode_cached that takes a longitude of 0 for a missing one.
GeocodeCachedFalsyLon(cache, query, outcome) ==
    LET q == Strip(query)
        res == [lat |-> Some(outcome.loc.lat),
                lon |-> IF outcome.loc.lon = 0 THEN None ELSE Some(outcome.loc.lon),
                display |-> Some(outcome.loc.address)]
    IN  IF q = <<>> THEN Geocoded(Miss, cache, FALSE)
        ELSE IF q \in DOMAIN cache THEN Geocoded(cache[q], cache, FALSE)
        ELSE IF outcome.kind = "location" THEN Geocoded(res, (q :> res) @@ cache, TRUE)
        ELSE Geocoded(Miss, (q :> Miss) @@ cache, TRUE)

\* geocode_cached whose except branch returns without storing anything.
GeocodeCachedErrorUnstored(cache, query, outcome) ==
    LET q == Strip(query)
        res == [lat |-> Some(outcome.loc.lat), lon |-> Some(outcome.loc.lon),
                display |-> Some(outcome.loc.address)]
    IN  IF q = <<>> THEN Geocoded(Miss, cache, FALSE)
        ELSE IF q \in DOMAIN cache THEN Geocoded(cache[q], cache, FALSE)
        ELSE IF outcome.kind = "location" THEN Geocoded(res, (q :> res) @@ cache, TRUE)
        ELSE IF outcome.kind = "error" THEN Geocoded(Miss, cache, TRUE)
        ELSE Geocoded(Miss, (q :> Miss) @@ cache, TRUE)

\* geocode_cached(query) when the geocoder, if called, answers outcome:
\* the value returned, the cache afterwards, whether the geocoder was called.
GeocodeCached(cache, query, outcome) ==
    LET q == Strip(query)
        res == [lat |-> Some(outcome.loc.lat), lon |-> Some(outcome.loc.lon),
                display |-> Some(outcome.loc.address)]
    IN  IF q = <<>> THEN Geocoded(Miss, cache, FALSE)
        ELSE IF q \in DOMAIN cache THEN Geocoded(cache[q], cache, FALSE)
        ELSE IF outcome.kind = "location" THEN Geocoded(res, (q :> res) @@ cache, TRUE)
        ELSE Geocoded(Miss, (q :> Miss) @@ cache, TRUE)

(***************************************************************************)
(* The features of the input file                                          *)
(***************************************************************************)
Names == {Ubud, Bali}

NoRepeat(t) == \A i, j \in 1..Len(t) : t[i] = t[j] => i = j

\* Sequences of distinct elements of S, at most n long.
DistinctSeqs(S, n) == {t \in SeqsUpTo(S, n) : NoRepeat(t)}

\* What extract_locations gives for the feature's text: a list, or it raises.
Extractions ==
    {[ok |-> TRUE, list |-> l] : l \in DistinctSeqs(Names, Cardinality(Names))}
    \cup {[ok |-> FALSE, list |-> <<>>]}

\* [location_name, keyword, Location] of the properties.
Hint(ln, kw, loc) == [location_name |-> ln, keyword |-> kw, Location |-> loc]

Hints ==
    { Hint(NoText, NoText, NoText),
      Hint(SomeText(Gianyar), NoText, NoText),
      Hint(SomeText(<<" ">> \o Gianyar \o <<",">>), SomeText(<<"x">>), NoText),
      Hint(SomeText(<<",">>), NoText, SomeText(Gianyar)),
      Hint(SomeText(Ubud), NoText, NoText),
      Hint(NoText, SomeText(<<"x", " ">> \o Gianyar), NoText),
      Hint(NoText, SomeText(<<"x">>), SomeText(Gianyar)),
      Hint(NoText, NoText, SomeText(Gianyar)) }

\* shape: "ok"; "nonstring": the content property is not a string;
\* "nullprops": "properties" is null.
Feature(shape, ex, h) == [shape |-> shape, extracted |-> ex, hint |-> h]

Features ==
    {Feature("ok", ex, h) : ex \in Extractions, h \in Hints} \cup
    {Feature(sh, [ok |-> TRUE, list |-> <<>>], Hint(NoText, NoText, NoText)) :
        sh \in {"nonstring", "nullprops"}}

(***************************************************************************)
(* extract_locations                                                       *)
(***************************************************************************)
UpperChar(c) ==
    CASE c = "u" -> "U" [] c = "b" -> "B" [] c = "a" -> "A" [] OTHER -> c

\* str.title(): a letter that starts a word is upper case, the others lower.
Title(t) ==
    [i \in 1..Len(t) |->
        IF i = 1 \/ t[i - 1] = " " THEN UpperChar(t[i]) ELSE LowerChar(t[i])]

\* Raw matches: spellings of two names, with and without blanks around.
RawMatches == { <<"U", "b">>, <<"u", "B">>, <<" ", "U", "b">>,
                <<"B", "a">>, <<"b", "a", " ">> }

\* cleaned.count(x)
Occurrences(list, x) == Cardinality({i \in 1..Len(list) : list[i] = x})

\* Orders in which a set can be iterated: list(set(cleaned)) follows the
\* hashes of the strings, which differ from one process to the next.
IterationOrders(S) == {t \in DistinctSeqs(S, Cardinality(S)) : Len(t) = Cardinality(S)}

\* sorted(order, key=count, reverse=True): stable, so equal counts keep the
\* order they have in the list that is sorted.
RECURSIVE SortedByCount(_, _, _)
SortedByCount(order, list, c) ==
    IF c = 0 THEN <<>>
    ELSE SelectSeq(order, LAMBDA x : Occurrences(list, x) = c)
         \o SortedByCount(order, list, c - 1)

Cleaned(locs) == [i \in 1..Len(locs) |-> Title(Strip(locs[i]))]

\* extract_locations, from the list of matches on, for each iteration order
\* of the set.
ExtractLocations(locs) ==
    LET cleaned == Cleaned(locs)
    IN  {SortedByCount(order, cleaned, Len(cleaned)) :
            order \in IterationOrders({cleaned[i] : i \in 1..Len(cleaned)})}

NotExtracted == [done |-> FALSE, list |-> <<>>]

ExtractIdle == locations = <<>> /\ extracted = NotExtracted

ExtractInit == locations \in SeqsUpTo(RawMatches, MaxMatches) /\ extracted = NotExtracted

ExtractCall ==
    /\ ~extracted.done
    /\ \E r \in ExtractLocations(locations) : extracted' = [done |-> TRUE, list |-> r]
    /\ UNCHANGED locations
    /\ UNCHANGED <<crawlVars, refineVars>>

(***************************************************************************)
(* The body of the feature loop                                            *)
(***************************************************************************)
\* The kabupaten fallback of a feature, None when there is none.
Kabupaten(h) ==
    LET raw == IF Truthy(h.location_name) THEN SomeText(Strip(h.location_name.text))
               ELSE IF Truthy(h.keyword)
                    THEN LET kw == SplitWords(Strip(h.keyword.text))
                         IN  IF Len(kw) >= 2 THEN SomeText(kw[2]) ELSE NoText
               ELSE IF Truthy(h.Location) THEN SomeText(Strip(h.Location.text))
               ELSE NoText
    IN  IF Truthy(raw) THEN SomeText(Strip(Remove(raw.text, ","))) ELSE NoText

\* Extracted names, trimmed, without blanks and case-insensitive repeats.
RECURSIVE Unique(_, _)
Unique(list, seenLower) ==
    IF list = <<>> THEN <<>>
    ELSE LET exs == Strip(Head(list))
         IN  IF exs # <<>> /\ Lower(exs) \notin seenLower
             THEN <<exs>> \o Unique(Tail(list), seenLower \cup {Lower(exs)})
             ELSE Unique(Tail(list), seenLower)

Candidates(ex) == IF ex.ok THEN Unique(ex.list, {}) ELSE <<>>

\* The fallback tier queried before the candidates.
QueryAttemptsFallbackFirst(cands, kab) ==
    (IF Truthy(kab) THEN <<kab.text \o CommaSpace \o BaliIndonesia>> ELSE <<>>)
    \o (IF Truthy(kab)
        THEN [i \in 1..Len(cands) |->
                cands[i] \o CommaSpace \o kab.text \o CommaSpace \o BaliIndonesia]
        ELSE <<>>)
    \o [i \in 1..Len(cands) |-> cands[i] \o CommaSpace \o BaliIndonesia]
    \o <<BaliIndonesia>>

\* query_attempts, in priority order.
QueryAttempts(cands, kab) ==
    (IF Truthy(kab)
     THEN [i \in 1..Len(cands) |->
             cands[i] \o CommaSpace \o kab.text \o CommaSpace \o BaliIndonesia]
     ELSE <<>>)
    \o [i \in 1..Len(cands) |-> cands[i] \o CommaSpace \o BaliIndonesia]
    \o (IF Truthy(kab) THEN <<kab.text \o CommaSpace \o BaliIndonesia>> ELSE <<>>)
    \o <<BaliIndonesia>>

UsedSource(q, cands, kab) ==
    IF Contains(q, <<",">>) /\ \E i \in 1..Len(cands) : Contains(q, cands[i])
    THEN "article_place"
    ELSE IF Truthy(kab) /\ Contains(q, kab.text) THEN "kabupaten_fallback"
    ELSE "bali_fallback"

\* What a finished feature was given.
Result(status, loc, source, lat, lon, geometry) ==
    [refine_status |-> status, refined_location |-> loc, refine_source |-> source,
     latitude |-> lat, longitude |-> lon, geometry |-> geometry]

NoResult == Result("none", NoText, "none", None, None, None)

\* The geometry and the latitude/longitude properties of a feature.
Placed(geometry, lat, lon) == [geometry |-> geometry, latitude |-> lat, longitude |-> lon]

NoPlace == Placed(None, None, None)

\* What a feature of the input file holds: nothing, or a point.
Originals == {NoPlace, Placed(Some(<<116, -9>>), Some(-9), Some(116))}

RefineIdle ==
    /\ pc = "idle"
    /\ candidates = <<>>
    /\ kabupaten = NoText
    /\ query_attempts = <<>>
    /\ qi = 1
    /\ found = Miss
    /\ used_query = NoText
    /\ used_source = "none"
    /\ attempts = <<>>

RefineInit ==
    /\ geocode_cache = <<>>
    /\ tried_queries = {}
    /\ updated = 0 /\ skipped = 0 /\ errors = 0
    /\ processed = 0
    /\ result = NoResult
    /\ calls = EmptyBag
    /\ feature = NoPlace /\ original = NoPlace
    /\ RefineIdle

\* The locals are dead between two features.
LeaveFeature ==
    /\ pc' = "idle"
    /\ processed' = processed + 1
    /\ candidates' = <<>>
    /\ kabupaten' = NoText
    /\ query_attempts' = <<>>
    /\ qi' = 1
    /\ found' = Miss
    /\ used_query' = NoText
    /\ used_source' = "none"
    /\ attempts' = <<>>

\* Top of the loop body, down to the list of query attempts.
BeginFeature ==
    \E f \in Features :
        /\ pc = "idle" /\ processed < MaxFeatures /\ f.shape = "ok"
        /\ pc' = "try"
        /\ feature' = NoPlace /\ original' = NoPlace
        /\ candidates' = Candidates(f.extracted)
        /\ kabupaten' = Kabupaten(f.hint)
        /\ query_attempts' = QueryAttempts(candidates', kabupaten')
        /\ qi' = 1
        /\ found' = Miss
        /\ used_query' = NoText
        /\ used_source' = "none"
        /\ attempts' = <<>>
        /\ UNCHANGED <<geocode_cache, tried_queries, updated, skipped, errors,
                       processed, result, calls>>
        /\ UNCHANGED <<crawlVars, extractVars>>

\* cleaned.strip() raises on a content that is no string: the except branch.
FeatureRaises ==
    \E f \in Features, o \in Originals :
        /\ pc = "idle" /\ processed < MaxFeatures /\ f.shape = "nonstring"
        /\ feature' = o /\ original' = o
        /\ errors' = errors + 1
        /\ result' = Result("error", NoText, "error", None, None, None)
        /\ LeaveFeature
        /\ UNCHANGED <<geocode_cache, tried_queries, updated, skipped, calls>>
        /\ UNCHANGED <<crawlVars, extractVars>>

\* "properties": null: props.get raises, and so does props["refine_error"]
\* in the except branch, which nothing catches.
FeatureAborts ==
    \E f \in Features :
        /\ pc = "idle" /\ processed < MaxFeatures /\ f.shape = "nullprops"
        /\ feature' = NoPlace /\ original' = NoPlace
        /\ errors' = errors + 1
        /\ pc' = "aborted"
        /\ UNCHANGED <<geocode_cache, tried_queries, updated, skipped, processed,
                       candidates, kabupaten, query_attempts, qi, found, used_query,
                       used_source, result, attempts, calls>>
        /\ UNCHANGED <<crawlVars, extractVars>>

\* One iteration of "for q in query_attempts".
TryQuery ==
    \E outcome \in Outcomes :
        LET q      == query_attempts[qi]
            cached == q \in tried_queries /\ q \in DOMAIN geocode_cache
            g      == IF cached THEN Geocoded(geocode_cache[q], geocode_cache, FALSE)
                      ELSE GeocodeCached(geocode_cache, q, outcome)
            hit    == g.res.lat # None /\ g.res.lon # None
        IN  /\ pc = "try" /\ qi <= Len(query_attempts)
            /\ geocode_cache' = g.cache
            /\ tried_queries' = IF cached THEN tried_queries ELSE tried_queries \cup {q}
            /\ calls' = IF g.called THEN calls (+) SetToBag({Strip(q)}) ELSE calls
            /\ attempts' = Append(attempts,
                                  [q |-> q, res |-> g.res, called |-> g.called,
                                   incache |-> Strip(q) \in DOMAIN geocode_cache])
            /\ IF hit
               THEN /\ found' = g.res
                    /\ used_query' = SomeText(q)
                    /\ used_source' = UsedSource(q, candidates, kabupaten)
                    /\ pc' = "finish"
                    /\ qi' = qi
               ELSE /\ UNCHANGED <<found, used_query, used_source>>
                    /\ qi' = qi + 1
                    /\ pc' = IF qi + 1 > Len(query_attempts) THEN "finish" ELSE "try"
            /\ UNCHANGED <<updated, skipped, errors, processed, candidates,
                           kabupaten, query_attempts, result, feature, original>>
            /\ UNCHANGED <<crawlVars, extractVars>>

\* The skip branch without its "continue": the update branch runs as well.
FinishFeatureNoContinue ==
    /\ pc = "finish"
    /\ original' \in Originals
    /\ IF found.lat = None
       THEN /\ skipped' = skipped + 1
            /\ updated' = updated + 1
            /\ result' = Result("no_geocode_found", used_query, used_source,
                                None, None, None)
            /\ feature' = original'
       ELSE /\ updated' = updated + 1
            /\ skipped' = skipped
            /\ result' = Result("refined",
                                IF found.display # None /\ found.display[1] # <<>>
                                THEN SomeText(found.display[1]) ELSE used_query,
                                used_source, found.lat, found.lon,
                                Some(<<found.lon[1], found.lat[1]>>))
            /\ feature' = Placed(Some(<<found.lon[1], found.lat[1]>>),
                                 found.lat, found.lon)
    /\ LeaveFeature
    /\ UNCHANGED <<geocode_cache, tried_queries, errors, calls>>
    /\ UNCHANGED <<crawlVars, extractVars>>

\* The skip branch writing the empty coordinate into the feature.
FinishFeatureSkipClearsGeometry ==
    /\ pc = "finish"
    /\ original' \in Originals
    /\ IF found.lat = None
       THEN /\ skipped' = skipped + 1
            /\ updated' = updated
            /\ result' = Result("no_geocode_found", NoText, "none", None, None, None)
            /\ feature' = NoPlace
       ELSE /\ updated' = updated + 1
            /\ skipped' = skipped
            /\ result' = Result("refined",
                                IF found.display # None /\ found.display[1] # <<>>
                                THEN SomeText(found.display[1]) ELSE used_query,
                                used_source, found.lat, found.lon,
                                Some(<<found.lon[1], found.lat[1]>>))
            /\ feature' = Placed(Some(<<found.lon[1], found.lat[1]>>),
                                 found.lat, found.lon)
    /\ LeaveFeature
    /\ UNCHANGED <<geocode_cache, tried_queries, errors, calls>>
    /\ UNCHANGED <<crawlVars, extractVars>>

\* After the query loop: skip, or update properties and geometry.  The loop
\* body has not read the record's geometry or coordinate properties up to
\* here, so what the record came with is drawn at this point.
FinishFeature ==
    /\ pc = "finish"
    /\ original' \in Originals
    /\ IF found.lat = None
       THEN /\ skipped' = skipped + 1
            /\ updated' = updated
            /\ result' = Result("no_geocode_found", NoText, "none", None, None, None)
            /\ feature' = original'
       ELSE /\ updated' = updated + 1
            /\ skipped' = skipped
            /\ result' = Result("refined",
                                IF found.display # None /\ found.display[1] # <<>>
                                THEN SomeText(found.display[1]) ELSE used_query,
                                used_source, found.lat, found.lon,
                                Some(<<found.lon[1], found.lat[1]>>))
            /\ feature' = Placed(Some(<<found.lon[1], found.lat[1]>>),
                                 found.lat, found.lon)
    /\ LeaveFeature
    /\ UNCHANGED <<geocode_cache, tried_queries, errors, calls>>
    /\ UNCHANGED <<crawlVars, extractVars>>

RefineNext == BeginFeature \/ FeatureRaises \/ FeatureAborts \/ TryQuery \/ FinishFeature

(***************************************************************************)
(* Crawl scheduler: at most one dispatch per (url, context) fingerprint.   *)
(***************************************************************************)
Fingerprint(r) == [url |-> r.url, meta |-> r.meta]

\* Offer the requests of reqs, in order, to the scheduler state
\* q = [frontier, seen]: a request whose fingerprint was seen is dropped.
RECURSIVE Enqueue(_, _)
Enqueue(q, reqs) ==
    IF reqs = <<>> THEN q
    ELSE LET r == Head(reqs)
         IN  IF Fingerprint(r) \in q.seen
             THEN Enqueue(q, Tail(reqs))
             ELSE Enqueue([frontier |-> q.frontier \cup {r},
                           seen     |-> q.seen \cup {Fingerprint(r)}],
                          Tail(reqs))

RECURSIVE SeqToBag(_)
SeqToBag(s) == IF s = <<>> THEN EmptyBag ELSE SetToBag({Head(s)}) (+) SeqToBag(Tail(s))

\* Dispatch request r and feed the callback's output out back.
Route(r, out) ==
    LET q == Enqueue([frontier |-> frontier \ {r}, seen |-> seen], out.requests)
    IN  /\ frontier'   = q.frontier
        /\ seen'       = q.seen
        /\ items'      = items (+) SeqToBag(out.items)
        /\ log'        = log (+) SetToBag({[req |-> r, out |-> out]})
        /\ UNCHANGED <<spider, keyword, site, started>>
        /\ UNCHANGED <<refineVars, extractVars>>

(***************************************************************************)
(* Crawl actions                                                           *)
(***************************************************************************)
Spiders == {"CNN", "Mongabay"}

StartRequests(reqs) ==
    LET q == Enqueue([frontier |-> frontier, seen |-> seen], reqs)
    IN  /\ ~started
        /\ started'  = TRUE
        /\ frontier' = q.frontier
        /\ seen'     = q.seen
        /\ UNCHANGED <<spider, keyword, site, items, log>>
        /\ UNCHANGED <<refineVars, extractVars>>

CnnStart == spider = "CNN" /\ StartRequests(CnnStartRequests(keyword))

MongabayStart == spider = "Mongabay" /\ StartRequests(MongabayStartRequests(keyword))

CnnHandleSearch ==
    \E r \in frontier :
        /\ spider = "CNN" /\ r.cb = "parse_search"
        /\ Route(r, CnnParseSearch(Fetch(site, r)))

CnnHandleArticle ==
    \E r \in frontier :
        /\ spider = "CNN" /\ r.cb = "parse"
        /\ Route(r, CnnParse(Fetch(site, r)))

MongabayHandleSearch ==
    \E r \in frontier :
        /\ spider = "Mongabay" /\ r.cb = "parse_search"
        /\ Route(r, MongabayParseSearch(Fetch(site, r)))

MongabayHandleGraphql ==
    \E r \in frontier :
        /\ spider = "Mongabay" /\ r.cb = "parse_graphql"
        /\ Route(r, MongabayParseGraphql(Fetch(site, r)))

MongabayHandleArticle ==
    \E r \in frontier :
        /\ spider = "Mongabay" /\ r.cb = "parse"
        /\ Route(r, MongabayParse(Fetch(site, r)))

\* Keyword attributes of the crawl runs: absent, empty, one keyword,
\* two keywords, a keyword twice, blank entries around a keyword.
CrawlKeywords ==
    {NoKeyword} \cup
    {KeywordAttr(t) : t \in {<<>>, <<"a">>, <<"a", ",", "b">>, <<"a", ",", "a">>,
                             <<" ", ",", "b", " ">>}}

CrawlInit ==
    /\ spider \in Spiders
    /\ keyword \in CrawlKeywords
    /\ site \in Sites
    /\ started = FALSE
    /\ frontier = {}
    /\ seen = {}
    /\ items = EmptyBag
    /\ log = EmptyBag
    /\ RefineInit
    /\ ExtractIdle

CrawlNext ==
    \/ CnnStart
    \/ MongabayStart
    \/ CnnHandleSearch
    \/ CnnHandleArticle
    \/ MongabayHandleSearch
    \/ MongabayHandleGraphql
    \/ MongabayHandleArticle

SpecCrawl == CrawlInit /\ [][CrawlNext]_vars

(***************************************************************************)
(* start_requests over every keyword attribute of at most MaxKwLen         *)
(* characters.                                                             *)
(***************************************************************************)
StartInit ==
    /\ spider \in Spiders
    /\ keyword \in {NoKeyword} \cup {KeywordAttr(t) : t \in SeqsUpTo(Chars, MaxKwLen)}
    /\ site = Site(0, "none", "full", "object")
    /\ started = FALSE
    /\ frontier = {}
    /\ seen = {}
    /\ items = EmptyBag
    /\ log = EmptyBag
    /\ RefineInit
    /\ ExtractIdle

StartNext == CnnStart \/ MongabayStart

SpecStart == StartInit /\ [][StartNext]_vars

(***************************************************************************)
(* A run of preciselocation.py over at most MaxFeatures features.          *)
(***************************************************************************)
CrawlIdle ==
    /\ spider = "CNN"
    /\ keyword = NoKeyword
    /\ site = Site(0, "none", "full", "object")
    /\ started = FALSE
    /\ frontier = {}
    /\ seen = {}
    /\ items = EmptyBag
    /\ log = EmptyBag

RefineStart == CrawlIdle /\ RefineInit /\ ExtractIdle

SpecRefine == RefineStart /\ [][RefineNext]_vars

(***************************************************************************)
(* extract_locations over every list of at most MaxMatches matches.        *)
(***************************************************************************)
ExtractStart == CrawlIdle /\ RefineInit /\ ExtractInit

SpecExtract == ExtractStart /\ [][ExtractCall]_vars

(***************************************************************************)
(* Vocabulary of the properties                                            *)
(***************************************************************************)
Done == started /\ frontier = {}

\* Number of dispatches recorded by the log entries S.
Dispatches(S) == BagCardinality([e \in S |-> log[e]])

\* Number of dispatches of fingerprint fp.
DispatchesOf(fp) == Dispatches({e \in DOMAIN log : Fingerprint(e.req) = fp})

\* Number of items emitted by the dispatches of the log entries S.
RECURSIVE SumItems(_)
SumItems(S) ==
    IF S = {} THEN 0
    ELSE LET e == CHOOSE x \in S : TRUE
         IN  log[e] * Len(e.out.items) + SumItems(S \ {e})

\* Number of items emitted while handling requests of fingerprint fp.
ItemsEmittedFor(fp) ==
    SumItems({e \in DOMAIN log : Fingerprint(e.req) = fp})

Range(s) == {s[i] : i \in 1..Len(s)}

\* The keywords a keyword attribute names: its non-blank entries, trimmed.
KeywordsOf(attr) ==
    IF ~attr.present THEN {}
    ELSE {Strip(k) : k \in Range(Split(attr.text, ","))} \ {<<>>}

Max(a, b) == IF a >= b THEN a ELSE b

(***************************************************************************)
(* C1: for the CNN search adapter and any keyword whose source answers k   *)
(* non-empty result pages and then an empty one, exactly k+1 search-page   *)
(* requests are dispatched for that keyword (offsets 0, 10, .., 10k) and   *)
(* none after the empty page.                                              *)
(***************************************************************************)
CleanSource(kw) == \A p \in 1..(site.k + 1) : JsonKind(site, quote_plus(kw), p) = "object"

IsSearchOf(kw, e) == e.req.cb = "parse_search" /\ e.req.meta.keyword = kw

SearchDispatches(kw) == Dispatches({e \in DOMAIN log : IsSearchOf(kw, e)})

C1_PaginationTerminates ==
    spider = "CNN" =>
        \A kw \in KeywordsOf(keyword) :
            CleanSource(kw) =>
                /\ SearchDispatches(kw) <= site.k + 1
                /\ \A e \in DOMAIN log :
                      IsSearchOf(kw, e) => e.req.url.n \in {10 * i : i \in 0..site.k}
                /\ Done => SearchDispatches(kw) = site.k + 1

C1_Witness ==
    /\ spider = "CNN" /\ Done /\ site.k >= 2
    /\ \E kw \in KeywordsOf(keyword) : CleanSource(kw) /\ SearchDispatches(kw) = site.k + 1

(***************************************************************************)
(* C2: no (url, context) fingerprint is dispatched twice in a run, and the *)
(* Mongabay result pages, which link to each other, are each requested at  *)
(* most once per keyword, so the crawl of the pages ends.                  *)
(***************************************************************************)
IsPageOf(kw, e) == e.req.url.kind = "page" /\ e.req.meta.keyword = kw

C2_AtMostOnceDispatch ==
    /\ \A e \in DOMAIN log : DispatchesOf(Fingerprint(e.req)) = 1
    /\ spider = "Mongabay" =>
          \A kw \in KeywordsOf(keyword) :
              Dispatches({e \in DOMAIN log : IsPageOf(kw, e)}) <= Max(site.k, 1)

\* Result page 2 was handled and yielded a link back to result page 1.
C2_Witness ==
    /\ spider = "Mongabay" /\ Done
    /\ \E e \in DOMAIN log :
          /\ e.req.url.kind = "page" /\ e.req.url.n = 2
          /\ \E r \in Range(e.out.requests) : r.url.kind = "page" /\ r.url.n = 1

(***************************************************************************)
(* C3: a redirect is followed at most once per original article request,   *)
(* with the article callback: no dispatched request is more than one       *)
(* redirect away from the request an article link produced.                *)
(***************************************************************************)
C3_RedirectFollowedAtMostOnce ==
    \A e \in DOMAIN log :
        /\ e.req.hops <= 1
        /\ e.req.hops > 0 => e.req.cb = "parse"

(***************************************************************************)
(* C4: a CNN article request that redirects once to a terminal article     *)
(* page gives one record in total: handling the redirect response emits no *)
(* item and one request for the target with the same context, and the      *)
(* target, requested once under that context, emits exactly one item.      *)
(***************************************************************************)
RedirectsOnceToArticle(a) ==
    /\ Location(site, a) # 0
    /\ Location(site, Location(site, a)) = 0
    /\ ArticleBody(site).box

C4_RedirectYieldsOneRecord ==
    spider = "CNN" =>
        \A e \in DOMAIN log :
            (e.req.cb = "parse" /\ e.req.hops = 0 /\ RedirectsOnceToArticle(e.req.url.n)) =>
                LET target == ArticleUrl(Location(site, e.req.url.n))
                    fp     == [url |-> target, meta |-> e.req.meta]
                IN  /\ e.out.items = <<>>
                    /\ e.out.requests = <<Request(target, "parse", e.req.meta, 1)>>
                    /\ ItemsEmittedFor(fp) <= 1
                    /\ Done => ItemsEmittedFor(fp) = 1
                    /\ \A it \in DOMAIN items : it.link # e.req.url

C4_Witness ==
    /\ spider = "CNN" /\ Done
    /\ \E e \in DOMAIN log :
          /\ e.req.cb = "parse" /\ e.req.hops = 0 /\ RedirectsOnceToArticle(e.req.url.n)
          /\ \E t \in DOMAIN log :
                /\ t.req = Request(ArticleUrl(Location(site, e.req.url.n)), "parse",
                                   e.req.meta, 1)
                /\ Len(t.out.items) = 1

(***************************************************************************)
(* C5: an item is emitted for an article page only if the title or the     *)
(* body text extracted from that page is non-empty.                        *)
(***************************************************************************)
ExtractedContent(url) ==
    LET pg == Fetch(site, Request(url, "parse", Meta(<<>>, "", NoStart, "none"), 0)).page
    IN  IF pg.box THEN StripText(pg.text) ELSE ""

C5_EmitOnlyNonEmpty ==
    \A it \in DOMAIN items : it.title # "" \/ ExtractedContent(it.link) # ""

(***************************************************************************)
(* C6: within a run no two emitted items share a url.                      *)
(***************************************************************************)
C6_UniqueUrl ==
    \A it \in DOMAIN items :
        /\ items[it] = 1
        /\ \A other \in DOMAIN items : other.link = it.link => other = it

(***************************************************************************)
(* C7: a malformed response ends its own branch silently.                  *)
(***************************************************************************)
MalformedJson(e) ==
    /\ e.req.cb \in {"parse_search", "parse_graphql"}
    /\ e.req.url.kind \in {"cnn-search", "graphql"}
    /\ Fetch(site, e.req).json = "unparseable"

IsArticlePage(e) == e.req.cb = "parse" /\ (spider = "CNN" => Fetch(site, e.req).location = 0)

\* Some expected node is missing: the headline or the body container.
MissingSomeNode(e) ==
    IsArticlePage(e) /\ (~Fetch(site, e.req).page.box \/ Fetch(site, e.req).page.h1 = "")

\* The nodes the record is built from are missing: for CNN the
\* div.detail-text container, for Mongabay both the headline and #main.
MissingContentNodes(e) ==
    /\ IsArticlePage(e)
    /\ ~Fetch(site, e.req).page.box
    /\ spider = "Mongabay" => Fetch(site, e.req).page.h1 = ""

\* C7 as stated: unparseable JSON, or any missing expected node of an
\* article page, makes the handler yield nothing and not raise.
C7_AnyMissingNodeSilent ==
    \A e \in DOMAIN log : (MalformedJson(e) \/ MissingSomeNode(e)) => e.out = Nothing

\* Every request a handled response yielded was accepted by the scheduler and
\* every item it emitted was kept, whatever other responses contained.
BranchesUnaffected ==
    /\ \A e \in DOMAIN log : \A r \in Range(e.out.requests) : Fingerprint(r) \in seen
    /\ Done => \A e \in DOMAIN log : \A r \in Range(e.out.requests) :
                  DispatchesOf(Fingerprint(r)) >= 1
    /\ \A e \in DOMAIN log : \A it \in Range(e.out.items) : BagIn(it, items)

(***************************************************************************)
(* C7 (amended): unparseable JSON in a search or GraphQL response, or an   *)
(* article page without the nodes its record is built from, makes the      *)
(* handler of that response yield no item and no request and return        *)
(* without raising; the requests and items of other responses are kept.    *)
(***************************************************************************)
C7_MalformedBranchSilent ==
    /\ \A e \in DOMAIN log :
          (MalformedJson(e) \/ MissingContentNodes(e)) => e.out = Nothing
    /\ BranchesUnaffected

\* A malformed JSON answer for one keyword, items for another, crawl over.
C7_Witness ==
    /\ Done
    /\ \E e \in DOMAIN log :
          /\ MalformedJson(e)
          /\ \E o \in DOMAIN log :
                o.req.meta.keyword # e.req.meta.keyword /\ o.out.items # <<>>

(***************************************************************************)
(* C8: with no keyword supplied (attribute absent, empty, or holding only  *)
(* blank comma-separated entries) start_requests issues no request; a      *)
(* blank entry never produces a request, every other entry does.           *)
(***************************************************************************)
OnlyBlank(attr) == ~attr.present \/ \A i \in 1..Len(attr.text) : attr.text[i] \in {" ", ","}

C8_NoKeywordNoRequest ==
    started =>
        /\ OnlyBlank(keyword) => frontier = {} /\ seen = {}
        /\ \A r \in frontier :
              /\ r.meta.keyword # <<>>
              /\ \E i \in 1..Len(r.meta.keyword) : r.meta.keyword[i] \notin {" ", ","}
        /\ {r.meta.keyword : r \in frontier} = KeywordsOf(keyword)

C8_Witness ==
    /\ started /\ frontier = {}
    /\ keyword.present /\ Len(keyword.text) = 3 /\ OnlyBlank(keyword)
    /\ \E i \in 1..Len(keyword.text) : keyword.text[i] = ","

(***************************************************************************)
(* C9: for candidates [c1..cn] and region hint r the queries are tried in  *)
(* the order "ci, r, Bali, Indonesia" (i = 1..n, only with a hint), then   *)
(* "ci, Bali, Indonesia" (i = 1..n), then "r, Bali, Indonesia" (only with  *)
(* a hint), then "Bali, Indonesia"; the loop stops at the first query that *)
(* yields a coordinate; without candidates and with a hint the first query *)
(* is "r, Bali, Indonesia".                                                *)
(***************************************************************************)
HasHint == kabupaten.present /\ kabupaten.text # <<>>

WithHint == IF HasHint THEN Len(candidates) ELSE 0

ExpectedLen == WithHint + Len(candidates) + (IF HasHint THEN 1 ELSE 0) + 1

\* The p-th query of the order the claim states.
ExpectedQuery(p) ==
    IF p <= WithHint
    THEN candidates[p] \o <<",", " ">> \o kabupaten.text \o <<",", " ">> \o BaliIndonesia
    ELSE IF p <= WithHint + Len(candidates)
    THEN candidates[p - WithHint] \o <<",", " ">> \o BaliIndonesia
    ELSE IF HasHint /\ p = WithHint + Len(candidates) + 1
    THEN kabupaten.text \o <<",", " ">> \o BaliIndonesia
    ELSE BaliIndonesia

Hit(a) == a.res.lat # None

C9_QueryOrder ==
    pc \in {"try", "finish"} =>
        /\ Len(attempts) <= ExpectedLen
        /\ \A p \in 1..Len(attempts) : attempts[p].q = ExpectedQuery(p)
        /\ \A p \in 1..(Len(attempts) - 1) : ~Hit(attempts[p])
        /\ pc = "try" => \A p \in 1..Len(attempts) : ~Hit(attempts[p])
        /\ pc = "finish" =>
              /\ attempts # <<>>
              /\ Hit(attempts[Len(attempts)]) \/ Len(attempts) = ExpectedLen
        /\ (candidates = <<>> /\ HasHint /\ attempts # <<>>) =>
              attempts[1].q = kabupaten.text \o <<",", " ">> \o BaliIndonesia

\* Two candidates and a hint: all six queries were tried, the last one hit.
C9_Witness ==
    /\ pc = "finish" /\ Len(candidates) = 2 /\ HasHint
    /\ Len(attempts) = 6 /\ Hit(attempts[6])

(***************************************************************************)
(* C10: in a run the geocoder is called at most once per query string;     *)
(* a query that has a cache entry is answered from the cache, hit or miss, *)
(* without a call.                                                         *)
(***************************************************************************)
C10_OneCallPerQuery ==
    /\ \A q \in DOMAIN calls : calls[q] = 1 /\ q \in DOMAIN geocode_cache
    /\ \A p \in 1..Len(attempts) :
          attempts[p].incache =>
              /\ ~attempts[p].called
              /\ attempts[p].res = geocode_cache[attempts[p].q]

\* A later feature got a cached miss and a cached coordinate without a call.
C10_Witness ==
    /\ processed >= 1
    /\ \E p, r \in 1..Len(attempts) :
          /\ attempts[p].incache /\ ~Hit(attempts[p])
          /\ attempts[r].incache /\ Hit(attempts[r])
          /\ BagIn(attempts[p].q, calls) /\ BagIn(attempts[r].q, calls)

(***************************************************************************)
(* C11: when the geocoder raises or returns nothing for a non-empty query, *)
(* geocode_cached stores the miss (None, None, None) under that query and  *)
(* returns it; a later lookup of the same query returns the miss without   *)
(* calling the geocoder, whatever the geocoder would answer then.          *)
(***************************************************************************)
Failures == {o \in Outcomes : o.kind \in {"none", "error"}}

\* The call geocode_cached(q) made from the current state with a failing
\* geocoder, and a second call for the same query afterwards.
FailedCallCachesMiss(q, o) ==
    LET first == GeocodeCached(geocode_cache, q, o)
    IN  (Strip(q) # <<>> /\ Strip(q) \notin DOMAIN geocode_cache) =>
            /\ first.called
            /\ first.res = Miss
            /\ Strip(q) \in DOMAIN first.cache /\ first.cache[Strip(q)] = Miss
            /\ \A again \in Outcomes :
                  GeocodeCached(first.cache, q, again) = Geocoded(Miss, first.cache, FALSE)

C11_MissIsCached ==
    /\ \A p \in 1..Len(query_attempts) : \A o \in Failures :
          FailedCallCachesMiss(query_attempts[p], o)
    /\ \A p \in 1..Len(attempts) :
          (attempts[p].called /\ ~Hit(attempts[p])) =>
              /\ attempts[p].res = Miss
              /\ attempts[p].q \in DOMAIN geocode_cache
              /\ geocode_cache[attempts[p].q] = Miss
              /\ calls[attempts[p].q] = 1
    /\ \A p \in 1..Len(attempts) :
          (attempts[p].incache /\ geocode_cache[attempts[p].q] = Miss) =>
              ~attempts[p].called /\ attempts[p].res = Miss

\* A query failed in an earlier feature and is answered with the cached miss
\* in a later one, while another query of this feature has just failed.
C11_Witness ==
    /\ processed >= 1
    /\ \E p, r \in 1..Len(attempts) :
          /\ attempts[p].incache /\ attempts[p].res = Miss /\ ~attempts[p].called
          /\ calls[attempts[p].q] = 1
          /\ attempts[r].called /\ attempts[r].res = Miss

(***************************************************************************)
(* C12: when every query of a record's attempt list has failed, the record *)
(* gets no latitude, no longitude, no refined_location and no              *)
(* refine_source, skipped grows by one, updated and errors stay.           *)
(***************************************************************************)
AllQueriesFailed ==
    /\ pc = "finish"
    /\ Len(attempts) = Len(query_attempts)
    /\ \A p \in 1..Len(attempts) : ~Hit(attempts[p])

Unresolved(r) ==
    /\ r.latitude = None /\ r.longitude = None
    /\ r.refined_location = NoText /\ r.refine_source = "none"

C12_NoResultIsSkipped ==
    [][AllQueriesFailed =>
          /\ Unresolved(result') /\ result'.refine_status = "no_geocode_found"
          /\ skipped' = skipped + 1
          /\ updated' = updated /\ errors' = errors
          /\ processed' = processed + 1]_vars

\* A record was skipped after an earlier one had raised.
C12_Witness ==
    /\ pc = "idle" /\ processed = 2
    /\ result.refine_status = "no_geocode_found" /\ Unresolved(result)
    /\ skipped = 1 /\ errors = 1 /\ updated = 0
    /\ Cardinality(DOMAIN geocode_cache) >= 1

(***************************************************************************)
(* C13: in every cache entry, in the coordinate the query loop holds and   *)
(* in every record the run has written, latitude and longitude are both    *)
(* set or both unset.                                                      *)
(***************************************************************************)
BothOrNeither(lat, lon) == (lat = None) <=> (lon = None)

C13_LatLonTogether ==
    /\ \A q \in DOMAIN geocode_cache :
          BothOrNeither(geocode_cache[q].lat, geocode_cache[q].lon)
    /\ \A p \in 1..Len(attempts) : BothOrNeither(attempts[p].res.lat, attempts[p].res.lon)
    /\ BothOrNeither(found.lat, found.lon)
    /\ BothOrNeither(result.latitude, result.longitude)
    /\ result.geometry # None <=> result.latitude # None
    /\ result.refine_status = "refined" <=> result.latitude # None

\* The cache holds a miss, a coordinate, and the coordinate (0, 0); the last
\* record written was resolved.
C13_Witness ==
    /\ \E q \in DOMAIN geocode_cache : geocode_cache[q] = Miss
    /\ \E q \in DOMAIN geocode_cache : geocode_cache[q].lon = Some(0)
    /\ \E q \in DOMAIN geocode_cache : geocode_cache[q].lat = Some(-8)
    /\ result.refine_status = "refined" /\ result.longitude # None

(***************************************************************************)
(* C14: the refine_source of a resolved record is the tier of the query    *)
(* that yielded the coordinate: article_place for a query built from a     *)
(* candidate, kabupaten_fallback for the hint-only query, the region       *)
(* fallback for "Bali, Indonesia" alone; also when a candidate is part of  *)
(* the hint or of the context string.                                      *)
(***************************************************************************)
\* The tier the p-th query of the attempt list was built in.
Tier(p) ==
    IF p <= WithHint + Len(candidates) THEN "article_place"
    ELSE IF HasHint /\ p = WithHint + Len(candidates) + 1 THEN "kabupaten_fallback"
    ELSE "region_fallback"

\* The code's name of the last tier is "bali_fallback".
TierName(source) == IF source = "bali_fallback" THEN "region_fallback" ELSE source

C14_ProvenanceIsTier ==
    (pc = "finish" /\ found.lat # None) =>
        /\ used_query = SomeText(query_attempts[qi])
        /\ TierName(used_source) = Tier(qi)

(***************************************************************************)
(* C15: a run never stops before its last record: a record that raises is  *)
(* counted in errors and the loop goes on, and between two records every   *)
(* record handled so far is counted in exactly one of updated, skipped and *)
(* errors.                                                                 *)
(***************************************************************************)
C15_RunCompletes ==
    /\ pc # "aborted"
    /\ pc = "idle" => updated + skipped + errors = processed
    /\ pc \in {"try", "finish"} => updated + skipped + errors = processed

(***************************************************************************)
(* C16: when every call of the geocoder in the run has failed, the run     *)
(* does not stop and a record whose queries were tried is resolved with    *)
(* the region fallback, not left without a location.                       *)
(***************************************************************************)
\* Every call of the geocoder so far has failed.
Unreachable ==
    /\ calls # EmptyBag
    /\ \A q \in DOMAIN geocode_cache : geocode_cache[q] = Miss

C16_UnreachableDegradesToRegion ==
    Unreachable =>
        /\ pc # "aborted"
        /\ (pc = "idle" /\ result.refine_status \in {"refined", "no_geocode_found"}) =>
              /\ result.refine_status = "refined"
              /\ TierName(result.refine_source) = "region_fallback"
              /\ result.latitude # None /\ result.longitude # None

(***************************************************************************)
(* C17: extract_locations returns trimmed, title-cased names, no two equal *)
(* when case is ignored, ordered by their number of occurrences among the  *)
(* matches, most frequent first, names with the same number in the order   *)
(* of their first appearance among the matches; no match gives the empty   *)
(* list.                                                                   *)
(***************************************************************************)
FirstAppearance(list, x) == CHOOSE i \in 1..Len(list) : list[i] = x /\ \A j \in 1..(i - 1) : list[j] # x

Normalized(list) == \A i \in 1..Len(list) : list[i] = Title(Strip(list[i]))

NoRepeatIgnoringCase(list) ==
    \A i, j \in 1..Len(list) : Lower(list[i]) = Lower(list[j]) => i = j

C17_RankedByCountThenFirstSeen ==
    extracted.done =>
        LET out == extracted.list
            cleaned == Cleaned(locations)
        IN  /\ Normalized(out) /\ NoRepeatIgnoringCase(out)
            /\ {out[i] : i \in 1..Len(out)} = {cleaned[i] : i \in 1..Len(cleaned)}
            /\ locations = <<>> => out = <<>>
            /\ \A i, j \in 1..Len(out) :
                  i < j =>
                     \/ Occurrences(cleaned, out[i]) > Occurrences(cleaned, out[j])
                     \/ /\ Occurrences(cleaned, out[i]) = Occurrences(cleaned, out[j])
                        /\ FirstAppearance(cleaned, out[i]) < FirstAppearance(cleaned, out[j])

(***************************************************************************)
(* C18: the geocode cache only grows: no step of the run removes a key or  *)
(* changes the value stored under a key; a cached miss stays a miss and a  *)
(* cached coordinate stays that coordinate.                                *)
(***************************************************************************)
C18_CacheOnlyGrows ==
    [][\A q \in DOMAIN geocode_cache :
          /\ q \in DOMAIN geocode_cache'
          /\ geocode_cache'[q] = geocode_cache[q]]_vars

\* A second record is under way with three entries in the cache, a miss
\* and a coordinate among them, one of them just read again.
C18_Witness ==
    /\ processed >= 1 /\ pc = "try"
    /\ Cardinality(DOMAIN geocode_cache) >= 3
    /\ \E q \in DOMAIN geocode_cache : geocode_cache[q] = Miss
    /\ \E q \in DOMAIN geocode_cache : geocode_cache[q] # Miss
    /\ \E p \in 1..Len(attempts) : attempts[p].incache

(***************************************************************************)
(* C19: in the CNN pagination chain of a keyword the request for offset    *)
(* start+10 exists only once the response of offset start has been         *)
(* handled, and was yielded by that handling; at most one search request   *)
(* of the keyword is pending, at an offset above every offset already      *)
(* handled, and no offset is dispatched twice; whatever else was handled   *)
(* in between.                                                             *)
(***************************************************************************)
IsCnnSearch(kw, r) == r.cb = "parse_search" /\ r.meta.keyword = kw

SearchRequests(kw) ==
    {r \in frontier : IsCnnSearch(kw, r)} \cup
    {e.req : e \in {x \in DOMAIN log : IsCnnSearch(kw, x.req)}}

C19_OffsetsIncrease ==
    spider = "CNN" =>
        \A kw \in KeywordsOf(keyword) :
            /\ \A r \in SearchRequests(kw) :
                  r.url.n > 0 =>
                      \E e \in DOMAIN log :
                          /\ IsCnnSearch(kw, e.req)
                          /\ e.req.url.n = r.url.n - 10
                          /\ r \in Range(e.out.requests)
            /\ Cardinality({r \in frontier : IsCnnSearch(kw, r)}) <= 1
            /\ \A r \in frontier : \A e \in DOMAIN log :
                  (IsCnnSearch(kw, r) /\ IsCnnSearch(kw, e.req)) => e.req.url.n < r.url.n
            /\ \A e \in DOMAIN log :
                  IsCnnSearch(kw, e.req) =>
                      Dispatches({x \in DOMAIN log : IsCnnSearch(kw, x.req)
                                                     /\ x.req.url.n = e.req.url.n}) = 1

\* Two keywords: one chain has handled offsets 0 and 10 and waits for 20
\* while the other has not moved past offset 0 and articles are pending.
C19_Witness ==
    /\ spider = "CNN"
    /\ \E kw, other \in KeywordsOf(keyword) :
          /\ kw # other
          /\ \E r \in frontier : IsCnnSearch(kw, r) /\ r.url.n = 20
          /\ \E e \in DOMAIN log : IsCnnSearch(kw, e.req) /\ e.req.url.n = 10
          /\ \E r \in frontier : IsCnnSearch(other, r) /\ r.url.n = 0
          /\ \E e \in DOMAIN log : e.req.cb = "parse"

(***************************************************************************)
(* C20: every request yielded while a response is handled (next page,      *)
(* article, redirect target) carries the keyword and the source of the     *)
(* request that produced the response, and so does every item; hence every *)
(* request and every emitted item carries one of the supplied non-blank    *)
(* keywords, the one of the start request its chain began with, whatever   *)
(* the order in which the responses of different keywords are handled.     *)
(***************************************************************************)
SourceOf(sp) == IF sp = "CNN" THEN CnnSource ELSE MongabaySource

SameContext(m, n) == m.keyword = n.keyword /\ m.source = n.source

Supplied(m) == m.keyword \in KeywordsOf(keyword) /\ m.source = SourceOf(spider)

C20_KeywordPropagated ==
    /\ \A e \in DOMAIN log :
          /\ \A r \in Range(e.out.requests) : SameContext(r.meta, e.req.meta)
          /\ \A it \in Range(e.out.items) : SameContext(it, e.req.meta)
          /\ Supplied(e.req.meta)
    /\ \A r \in frontier : Supplied(r.meta)
    /\ \A it \in DOMAIN items : Supplied(it)

\* A crawl of two keywords is over; both have items, one of them reached
\* through a redirect and one through a second result page.
C20_Witness ==
    /\ Done
    /\ \E it, ot \in DOMAIN items : it.keyword # ot.keyword
    /\ \E e \in DOMAIN log : e.req.hops >= 1 /\ e.out.items # <<>>
    /\ \E e \in DOMAIN log : e.req.url.kind = "article" /\ e.req.meta.start = 20

(***************************************************************************)
(* C21: a record that is skipped or errored keeps the geometry and the     *)
(* latitude/longitude properties it had in the input file; only a record   *)
(* counted as updated has its geometry replaced, by the point              *)
(* [found_lon, found_lat] of the query that succeeded.                     *)
(***************************************************************************)
C21_OnlyUpdatedReplacesGeometry ==
    [][/\ (skipped' = skipped + 1 \/ errors' = errors + 1) => feature' = original'
       /\ updated' = updated + 1 =>
              /\ found.lat # None /\ found.lon # None
              /\ used_query.present /\ geocode_cache[used_query.text] = found
              /\ feature'.geometry = Some(<<found.lon[1], found.lat[1]>>)
              /\ feature'.latitude = found.lat /\ feature'.longitude = found.lon
       /\ feature' # original' => updated' = updated + 1]_vars

\* A record that came with a point was skipped after another one had been
\* updated: it still holds its point.
C21_Witness ==
    /\ pc = "idle" /\ processed = 2 /\ updated = 1 /\ skipped = 1
    /\ result.refine_status = "no_geocode_found"
    /\ original.geometry # None /\ feature = original

====
